---- MODULE Spec2Model ----
(***************************************************************************)
(* Model of script_deps/main.py: DependencyCollector and main().           *)
(*                                                                         *)
(* A run is: the static walk from the gateway script                       *)
(* (collect_static_dependencies), the runtime observation                  *)
(* (collect_runtime_dependencies) and the copy (copy_dependencies, which   *)
(* ends with create_requirements_txt).  The recursion of the static walk   *)
(* is unfolded into a stack of frames, one per active call.                *)
(*                                                                         *)
(* The environment is a small file system and module search path.  What a  *)
(* source file imports is read when the file is first parsed and stays     *)
(* the same afterwards (the file system does not change during a run).     *)
(***************************************************************************)
EXTENDS Naturals, Integers, Sequences, FiniteSets, TLC

(***************************************************************************)
(* Bounds of the model.                                                    *)
(***************************************************************************)
\* largest number of distinct top-level names one source file imports
MaxImports == 2
\* largest number of modules the test run loads
MaxLoaded == 1
\* cap on the per-file visit count (never binds while a file is visited once)
MaxVisits == 2

(***************************************************************************)
(* Paths.  A path is its directory (a sequence of segments), the file's    *)
(* stem and its suffix.                                                    *)
(***************************************************************************)
P(dir, name, ext) == [dir |-> dir, name |-> name, ext |-> ext]

\* Python's None where a path is expected
None == P(<< >>, "None", "")

\* str.lower() on the strings of this file system
Lower(s) ==
    CASE s = ".YML" -> ".yml"
      [] s = "Venv" -> "venv"
      [] OTHER -> s

\* Path.parts
Parts(p) == Append(p.dir, p.name)

IsPrefix(s, t) == Len(s) <= Len(t) /\ SubSeq(t, 1, Len(s)) = s

\* self.root_path and self.gateway_path
root_path == << "proj" >>
gateway_path == P(<< "proj", "bin" >>, "app", ".py")

\* self.config_extensions
config_extensions == { ".txt", ".yaml", ".yml", ".json" }

(***************************************************************************)
(* The file system.                                                        *)
(***************************************************************************)
aPy      == P(<< "proj", "lib" >>, "a", ".py")
pkgInit  == P(<< "proj", "pkg" >>, "__init__", ".py")
fooInit  == P(<< "proj", "venv", "site-packages", "foo" >>, "__init__", ".py")
foo2Init == P(<< "usr", "site-packages", "foo2" >>, "__init__", ".py")

SourceFiles == { gateway_path, aPy, pkgInit, fooInit, foo2Init }

OtherFiles ==
    { P(<< "proj", "bin" >>, "app", ".json"),
      P(<< "proj", "lib" >>, "a", ".json"),
      P(<< "proj", "lib", "data" >>, "x", ".YML"),
      P(<< "proj", "lib" >>, "notes", ".md"),
      P(<< "proj", "pkg" >>, "schema", ".yaml"),
      P(<< "proj", "venv", "site-packages", "foo" >>, "meta", ".txt"),
      P(<< "usr", "site-packages", "foo2" >>, "top", ".txt") }

Files == SourceFiles \cup OtherFiles

(***************************************************************************)
(* The module search path: what importlib.import_module(name) finds.       *)
(*   "sys"     is a built-in: a module without __file__;                   *)
(*   "missing" is not installed: ImportError.                              *)
(***************************************************************************)
Names == { "app", "a", "pkg", "foo", "foo2", "sys", "missing" }

ModuleFile(name) ==
    CASE name = "app"  -> gateway_path
      [] name = "a"    -> aPy
      [] name = "pkg"  -> pkgInit
      [] name = "foo"  -> fooInit
      [] name = "foo2" -> foo2Init
      [] OTHER -> None

\* text as the sequence of its code points
Str_foo  == << 102, 111, 111 >>
Str_foo2 == << 102, 111, 111, 50 >>
Str_1_0  == << 49, 46, 48 >>
Str_eqeq == << 61, 61 >>

\* pkg_resources.working_set: the installed distributions, by requirement name
Installed == { "foo", "foo2" }
DistKey(req) == IF req = "foo" THEN Str_foo ELSE Str_foo2
DistVersion(req) == Str_1_0

ImportSets == { S \in SUBSET Names : Cardinality(S) <= MaxImports }

\* The text of a file: the top-level names its import statements name.  The
\* entry point and a.py may import anything; pkg/__init__.py is empty or
\* imports a and the entry point; the installed package foo imports the
\* package it depends on, foo2.
SourceChoices(file_path) ==
    IF file_path = fooInit THEN { { "foo2" } }
    ELSE IF file_path = pkgInit THEN { {}, { "a", "app" } }
    ELSE ImportSets

\* the modules a test run may load
LoadSets == { S \in SUBSET Names : Cardinality(S) <= MaxLoaded }

\* the files that are not valid Python: none, or one (the first syntax error
\* met ends the run, so a second invalid file is never looked at)
InvalidSets == { {} } \cup { { f } : f \in SourceFiles }

VARIABLES
    collected_files,        \* self.collected_files
    third_party_packages,   \* self.third_party_packages
    sys_modules,            \* keys of sys.modules
    source,                 \* source[f]: the names the parsed file f imports
    parsed,                 \* the files whose text has been read
    invalid,                \* the source files that are not valid Python
    stack,                  \* active calls of collect_static_dependencies
    phase,                  \* where main() is
    output,                 \* relative paths copied under output_path
    manifest,               \* requirements.txt: written or not, and its lines
    visits,                 \* visits[f]: calls of analyze_imports(f)
    adds,                   \* adds[f]: times line 167 added f
    sweeps,                 \* sweeps[f]: calls of collect_config_files(f)
    resweep_new,            \* paths a repeated sweep of the same file added
    new_modules,            \* modules the test run loaded
    tests_passed,           \* outcome of the test run
    walks,                  \* completed calls of the static walk from the gateway
    first_walk              \* collected_files when the first walk returned

vars == << collected_files, third_party_packages, sys_modules, source, parsed,
           invalid, stack, phase, output, manifest, visits, adds, sweeps,
           resweep_new, new_modules, tests_passed, walks, first_walk >>

(***************************************************************************)
(* The collector's predicates and helpers.                                 *)
(***************************************************************************)
\* is_venv_module: 'venv' in str(path).lower() or 'site-packages' in str(path).
\* In this file system the two markers occur only as whole path segments.
is_venv_module(module_path) ==
    \E i \in DOMAIN Parts(module_path) :
        \/ Lower(Parts(module_path)[i]) = "venv"
        \/ Parts(module_path)[i] = "site-packages"

\* Path.relative_to(root) succeeds (no ValueError)
relative_to_ok(path, base) == IsPrefix(base, path.dir)

\* Path.relative_to(root): the segments below root, and the file
relative_to(path, base) ==
    P(SubSeq(path.dir, Len(base) + 1, Len(path.dir)), path.name, path.ext)

is_project_module(module_path) ==
    IF module_path = gateway_path
    THEN FALSE
    ELSE relative_to_ok(module_path, root_path)

\* get_package_name: "key==version" of the distribution named like the
\* module's parent directory (parts[-2]); the empty text stands for None
get_package_name(module_path) ==
    LET req == module_path.dir[Len(module_path.dir)]
    IN  IF req \in Installed
        THEN DistKey(req) \o Str_eqeq \o DistVersion(req)
        ELSE << >>

\* importlib.import_module(name) raises ImportError
import_error(module_name) == module_name = "missing"

\* the imported module has a __file__
has_file(module_name) == ModuleFile(module_name) # None

\* the SyntaxError swallowed
syntax_error_swallowed(file_path, bad) == FALSE

\* ast.parse / compiling the file raises SyntaxError
syntax_error(file_path, bad) == file_path \in bad

\* find_module_path: the value returned (None when not found or no file)
find_module_path(module_name) ==
    IF import_error(module_name)
    THEN None
    ELSE IF has_file(module_name) THEN ModuleFile(module_name) ELSE None

\* find_module_path: its effect on self.third_party_packages
find_module_packages(module_name, packages) ==
    LET module_path == find_module_path(module_name)
    IN  IF module_path # None /\ is_venv_module(module_path)
           /\ get_package_name(module_path) # << >>
        THEN packages \cup { get_package_name(module_path) }
        ELSE packages

\* glob('*') in place of rglob('*'): the directory itself only
collect_config_files_shallow(module_path) ==
    IF module_path \notin Files
    THEN {}
    ELSE { file_path \in Files :
              /\ module_path.dir = file_path.dir
              /\ Lower(file_path.ext) \in config_extensions
              /\ is_project_module(file_path) }

\* collect_config_files: the paths it adds to self.collected_files
collect_config_files(module_path) ==
    IF module_path \notin Files
    THEN {}
    ELSE { file_path \in Files :
              /\ IsPrefix(module_path.dir, file_path.dir)
              /\ Lower(file_path.ext) \in config_extensions
              /\ is_project_module(file_path) }

\* the membership test of line 166 left out
should_recurse_unchecked(module_path, collected) ==
    /\ module_path # None
    /\ is_project_module(module_path)

\* lines 165-166: the imported module is added and recursed into
should_recurse(module_path, collected) ==
    /\ module_path # None
    /\ is_project_module(module_path)
    /\ module_path \notin collected

\* the difference of line 130 taken the wrong way round
NewModules_reversed(before, after) == before \ after

\* line 130: the modules loaded while the tests ran
NewModules(before, after) == after \ before

\* lines 132-137: the files the runtime observer adds
runtime_files(loaded) ==
    { ModuleFile(n) : n \in { m \in loaded :
                                has_file(m) /\ is_project_module(ModuleFile(m)) } }

\* line 69: the collected files copy_dependencies copies
copy_set(collected) ==
    { file_path \in collected :
        /\ is_project_module(file_path)
        /\ ~ is_venv_module(file_path)
        /\ relative_to_ok(file_path, root_path) }

(***************************************************************************)
(* sorted() on a set of texts: Python compares texts code point by code    *)
(* point, a proper prefix before the longer text.                          *)
(***************************************************************************)
RECURSIVE LexLess(_, _)
LexLess(s, t) ==
    IF s = << >> THEN t # << >>
    ELSE IF t = << >> THEN FALSE
    ELSE IF Head(s) # Head(t) THEN Head(s) < Head(t)
    ELSE LexLess(Tail(s), Tail(t))

Least(S) == CHOOSE s \in S : \A t \in S \ {s} : LexLess(s, t)

RECURSIVE sorted(_)
sorted(S) == IF S = {} THEN << >> ELSE << Least(S) >> \o sorted(S \ { Least(S) })

\* create_requirements_txt: the file it leaves (written only for a non-empty set)
create_requirements_txt(packages) ==
    IF packages # {}
    THEN [written |-> TRUE, lines |-> sorted(packages)]
    ELSE [written |-> FALSE, lines |-> << >>]

(***************************************************************************)
(* Initial state: the collector as __init__ leaves it, main() about to     *)
(* call collect_static_dependencies(gateway_path).                         *)
(***************************************************************************)
Frame(file_path, pc, todo) == [file |-> file_path, pc |-> pc, todo |-> todo]

Init ==
    /\ collected_files = { gateway_path }
    /\ third_party_packages = {}
    /\ sys_modules = { "sys" }
    /\ source = [f \in SourceFiles |-> {}]
    /\ parsed = {}
    /\ invalid \in InvalidSets
    /\ stack = << Frame(gateway_path, "enter", {}) >>
    /\ phase = "static"
    /\ output = {}
    /\ manifest = [written |-> FALSE, lines |-> << >>]
    /\ visits = [f \in Files |-> 0]
    /\ adds = [f \in Files |-> 0]
    /\ sweeps = [f \in Files |-> 0]
    /\ resweep_new = {}
    /\ new_modules = {}
    /\ tests_passed = TRUE
    /\ walks = 0
    /\ first_walk = {}

Top == stack[Len(stack)]
Pop == SubSeq(stack, 1, Len(stack) - 1)

\* ghost bookkeeping of one call collect_config_files(f) made in state `collected`
SweepNew(f, collected) ==
    IF sweeps[f] >= 1 THEN collect_config_files(f) \ collected ELSE {}

(***************************************************************************)
(* collect_static_dependencies, line 159: the file does not parse; the     *)
(* SyntaxError leaves every active call and main().                        *)
(***************************************************************************)
VisitRaises ==
    /\ phase = "static" /\ stack # << >> /\ Top.pc = "enter"
    /\ visits[Top.file] < MaxVisits
    /\ syntax_error(Top.file, invalid)
    /\ visits' = [visits EXCEPT ![Top.file] = @ + 1]
    /\ stack' = << >>
    /\ phase' = "aborted"
    /\ UNCHANGED << collected_files, third_party_packages, sys_modules, source,
                    parsed, invalid, output, manifest, adds, sweeps,
                    resweep_new, new_modules, tests_passed, walks, first_walk >>

(***************************************************************************)
(* collect_static_dependencies, lines 159-162: parse the file, sweep its   *)
(* directory, and start the loop over its imports.                         *)
(***************************************************************************)
Visit ==
    /\ phase = "static" /\ stack # << >> /\ Top.pc = "enter"
    /\ visits[Top.file] < MaxVisits
    /\ ~ syntax_error(Top.file, invalid)
    /\ \E imports \in SourceChoices(Top.file) :
          /\ Top.file \in parsed => imports = source[Top.file]
          /\ source' = [source EXCEPT ![Top.file] = imports]
          /\ stack' = Append(Pop, Frame(Top.file, "loop", imports))
    /\ parsed' = parsed \cup { Top.file }
    /\ visits' = [visits EXCEPT ![Top.file] = @ + 1]
    /\ collected_files' = collected_files \cup collect_config_files(Top.file)
    /\ sweeps' = [sweeps EXCEPT ![Top.file] = @ + 1]
    /\ resweep_new' = resweep_new \cup SweepNew(Top.file, collected_files)
    /\ UNCHANGED << third_party_packages, sys_modules, invalid, phase, output,
                    manifest, adds, new_modules, tests_passed, walks, first_walk >>

(***************************************************************************)
(* One iteration of the loop of line 163 whose import_module call raises   *)
(* SyntaxError (not an ImportError, so line 52 does not catch it).         *)
(***************************************************************************)
ImportRaises ==
    /\ phase = "static" /\ stack # << >> /\ Top.pc = "loop"
    /\ \E import_name \in Top.todo :
          /\ ~ import_error(import_name)
          /\ has_file(import_name)
          /\ import_name \notin sys_modules
          /\ syntax_error(ModuleFile(import_name), invalid)
    /\ stack' = << >>
    /\ phase' = "aborted"
    /\ UNCHANGED << collected_files, third_party_packages, sys_modules, source,
                    parsed, invalid, output, manifest, visits, adds, sweeps,
                    resweep_new, new_modules, tests_passed, walks, first_walk >>

(***************************************************************************)
(* One iteration of the loop of line 163 that does not recurse: the import *)
(* is not found, has no file, is not a project module or is collected.     *)
(***************************************************************************)
ImportSkip ==
    /\ phase = "static" /\ stack # << >> /\ Top.pc = "loop"
    /\ \E import_name \in Top.todo :
          LET module_path == find_module_path(import_name)
          IN  /\ ~ (module_path # None /\ import_name \notin sys_modules
                      /\ syntax_error(module_path, invalid))
              /\ ~ should_recurse(module_path, collected_files)
              /\ third_party_packages' =
                     find_module_packages(import_name, third_party_packages)
              /\ sys_modules' = IF import_error(import_name)
                                THEN sys_modules
                                ELSE sys_modules \cup { import_name }
              /\ stack' = Append(Pop, Frame(Top.file, "loop",
                                            Top.todo \ { import_name }))
    /\ UNCHANGED << collected_files, source, parsed, invalid, phase, output,
                    manifest, visits, adds, sweeps, resweep_new, new_modules,
                    tests_passed, walks, first_walk >>

(***************************************************************************)
(* One iteration of the loop of line 163 that recurses, lines 164-170: add *)
(* the module, sweep its directory, call collect_static_dependencies.      *)
(***************************************************************************)
ImportRecurse ==
    /\ phase = "static" /\ stack # << >> /\ Top.pc = "loop"
    /\ \E import_name \in Top.todo :
          LET module_path == find_module_path(import_name)
          IN  /\ ~ (module_path # None /\ import_name \notin sys_modules
                      /\ syntax_error(module_path, invalid))
              /\ should_recurse(module_path, collected_files)
              /\ third_party_packages' =
                     find_module_packages(import_name, third_party_packages)
              /\ sys_modules' = sys_modules \cup { import_name }
              /\ collected_files' = collected_files \cup { module_path }
                                      \cup collect_config_files(module_path)
              /\ adds' = [adds EXCEPT ![module_path] = @ + 1]
              /\ sweeps' = [sweeps EXCEPT ![module_path] = @ + 1]
              /\ resweep_new' = resweep_new \cup
                     SweepNew(module_path, collected_files \cup { module_path })
              /\ stack' = Append(Append(Pop, Frame(Top.file, "loop",
                                                   Top.todo \ { import_name })),
                                 Frame(module_path, "enter", {}))
    /\ UNCHANGED << source, parsed, invalid, phase, output, manifest, visits,
                    new_modules, tests_passed, walks, first_walk >>

(***************************************************************************)
(* collect_static_dependencies returns (line 171); the return of the call  *)
(* main() made ends the static walk.                                       *)
(***************************************************************************)
Return ==
    /\ phase = "static" /\ stack # << >> /\ Top.pc = "loop" /\ Top.todo = {}
    /\ stack' = Pop
    /\ IF Len(stack) = 1
       THEN /\ phase' = "walked"
            /\ walks' = walks + 1
            /\ first_walk' = IF walks = 0 THEN collected_files ELSE first_walk
       ELSE UNCHANGED << phase, walks, first_walk >>
    /\ UNCHANGED << collected_files, third_party_packages, sys_modules, source,
                    parsed, invalid, output, manifest, visits, adds, sweeps,
                    resweep_new, new_modules, tests_passed >>

(***************************************************************************)
(* collect_runtime_dependencies, lines 119-139: run the tests, which load  *)
(* modules and pass or fail; add the project files of the new modules and  *)
(* sweep their directories.                                                *)
(***************************************************************************)
collect_runtime_dependencies ==
    /\ phase = "walked"
    /\ \E loaded \in LoadSets, passed \in BOOLEAN :
          LET original_modules == sys_modules
              after == sys_modules \cup
                         { m \in loaded : /\ ~ import_error(m)
                                          /\ ~ syntax_error(ModuleFile(m), invalid) }
              new == NewModules(original_modules, after)
              found == runtime_files(new)
          IN  /\ sys_modules' = after
              /\ new_modules' = after \ original_modules
              /\ tests_passed' = passed
              /\ collected_files' = collected_files \cup found
                     \cup UNION { collect_config_files(f) : f \in found }
              /\ sweeps' = [f \in Files |->
                               IF f \in found THEN sweeps[f] + 1 ELSE sweeps[f]]
              /\ resweep_new' = resweep_new \cup
                     UNION { SweepNew(f, collected_files \cup found) : f \in found }
    /\ phase' = "observed"
    /\ UNCHANGED << third_party_packages, source, parsed, invalid, stack, output,
                    manifest, visits, adds, walks, first_walk >>

(***************************************************************************)
(* copy_dependencies, lines 64-92: copy the project files to the output    *)
(* tree and write requirements.txt.                                        *)
(***************************************************************************)
copy_dependencies ==
    /\ phase = "observed"
    /\ output' = { relative_to(f, root_path) : f \in copy_set(collected_files) }
    /\ manifest' = create_requirements_txt(third_party_packages)
    /\ phase' = "done"
    /\ UNCHANGED << collected_files, third_party_packages, sys_modules, source,
                    parsed, invalid, stack, visits, adds, sweeps, resweep_new,
                    new_modules, tests_passed, walks, first_walk >>

\* main(): one run
Next ==
    \/ VisitRaises
    \/ Visit
    \/ ImportRaises
    \/ ImportSkip
    \/ ImportRecurse
    \/ Return
    \/ collect_runtime_dependencies
    \/ copy_dependencies

Spec == Init /\ [][Next]_vars

(***************************************************************************)
(* The static walk called a second time on the same collector, in place of *)
(* the rest of main().                                                     *)
(***************************************************************************)
SecondWalk ==
    /\ phase = "walked" /\ walks = 1
    /\ stack' = << Frame(gateway_path, "enter", {}) >>
    /\ phase' = "static"
    /\ UNCHANGED << collected_files, third_party_packages, sys_modules, source,
                    parsed, invalid, output, manifest, visits, adds, sweeps,
                    resweep_new, new_modules, tests_passed, walks, first_walk >>

NextTwice ==
    \/ VisitRaises
    \/ Visit
    \/ ImportRaises
    \/ ImportSkip
    \/ ImportRecurse
    \/ Return
    \/ SecondWalk

SpecTwice == Init /\ [][NextTwice]_vars

(***************************************************************************)
(* The static walk alone.  The program is single-threaded and nothing       *)
(* preempts it: a step that can be taken is taken.                         *)
(***************************************************************************)
NextWalk ==
    \/ VisitRaises
    \/ Visit
    \/ ImportRaises
    \/ ImportSkip
    \/ ImportRecurse
    \/ Return

FairWalk == Init /\ [][NextWalk]_vars /\ WF_vars(NextWalk)

(***************************************************************************)
(* Vocabulary of the properties.                                           *)
(***************************************************************************)
\* project-owned, as the specification defines it: under the root, not the
\* entry point, not inside a dependency-installation directory
ProjectOwned(path) == is_project_module(path) /\ ~ is_venv_module(path)

\* a configuration file lying in directory dir or below it
ConfigUnder(file_path, dir) ==
    /\ IsPrefix(dir, file_path.dir)
    /\ Lower(file_path.ext) \in config_extensions

\* the files the import statements of the files in R resolve to
ImportTargets(R) ==
    { find_module_path(n) : n \in UNION { source[f] : f \in R \cap SourceFiles } }

RECURSIVE OwnedClosure(_)
OwnedClosure(R) ==
    LET more == { p \in ImportTargets(R) : p # None /\ ProjectOwned(p) }
    IN  IF more \subseteq R THEN R ELSE OwnedClosure(R \cup more)

\* the files the runtime observer saw loaded
ObservedFiles ==
    { ModuleFile(m) : m \in { n \in new_modules : has_file(n) } }

\* the package name of a manifest line: the text before "=="
RECURSIVE NameOf(_)
NameOf(line) ==
    IF line = << >> \/ Head(line) = 61 THEN << >>
    ELSE << Head(line) >> \o NameOf(Tail(line))

WalkOver == phase \in { "walked", "observed", "done" }
DiscoveryOver == phase \in { "observed", "done" }

(***************************************************************************)
(* C1.  The static walk from the entry point terminates on every import    *)
(* graph, cyclic ones included, and every file is added to the collected   *)
(* set and recursed into at most once.                                     *)
(***************************************************************************)
C1_WalkTerminatesVisitingOnce ==
    /\ <>(phase # "static")
    /\ [](\A f \in Files : adds[f] <= 1 /\ visits[f] <= 1)

\* a finished walk over mutual imports a <-> pkg, with a importing itself
\* and pkg importing the entry point
C1_Witness ==
    /\ phase = "walked"
    /\ source[aPy] = { "a", "pkg" }
    /\ source[pkgInit] = { "a", "app" }
    /\ visits[aPy] = 1 /\ visits[pkgInit] = 1

(***************************************************************************)
(* C2.  After a complete run the entry-point file is among the files       *)
(* copied to the output tree, at its path relative to the root.            *)
(***************************************************************************)
C2_EntryPointCopied ==
    phase = "done" => relative_to(gateway_path, root_path) \in output

(***************************************************************************)
(* C3.  No path inside a dependency-installation directory is ever added   *)
(* to the collected set or analysed for imports.                           *)
(***************************************************************************)
C3_NoVenvPathCollected ==
    \A f \in Files :
        is_venv_module(f) => f \notin collected_files /\ visits[f] = 0

(***************************************************************************)
(* C4.  When the static walk returns, the module files collected are       *)
(* exactly the entry point and the project-owned files reachable from it   *)
(* through resolvable imports of project-owned files.                      *)
(***************************************************************************)
C4_StaticClosure ==
    phase = "walked" =>
        collected_files \cap SourceFiles = OwnedClosure({ gateway_path })

(***************************************************************************)
(* C5.  As claimed: every path is analysed for imports at most once and    *)
(* has the configuration sweep run on it at most once.                     *)
(***************************************************************************)
C5_AnalysedAndSweptOnce ==
    \A f \in Files : visits[f] <= 1 /\ sweeps[f] <= 1

(***************************************************************************)
(* C5, amended.  Every path is analysed for imports at most once; the      *)
(* configuration sweep may run on the same path again, and a repeated      *)
(* sweep adds no path.                                                     *)
(***************************************************************************)
C5_AnalysedOnceResweepAddsNothing ==
    /\ \A f \in Files : visits[f] <= 1
    /\ resweep_new = {}

\* a complete run in which a statically added module was swept twice
C5_Witness ==
    /\ phase = "done"
    /\ visits[aPy] = 1
    /\ sweeps[aPy] = 2

(***************************************************************************)
(* C6.  After the runtime observation every module the test run loaded     *)
(* that has a file and is a project module is collected, whether the       *)
(* tests passed or failed.                                                 *)
(***************************************************************************)
C6_RuntimeModulesCollected ==
    DiscoveryOver =>
        \A p \in ObservedFiles : is_project_module(p) => p \in collected_files

\* failed tests loaded module a, which the static walk had not found
C6_Witness ==
    /\ phase = "observed"
    /\ ~ tests_passed
    /\ "a" \in new_modules
    /\ aPy \notin first_walk
    /\ aPy \in collected_files

(***************************************************************************)
(* C7.  The manifest is written exactly when a package was recorded, holds *)
(* one line per recorded package, and its lines are in lexicographic       *)
(* order of package name.                                                  *)
(***************************************************************************)
C7_ManifestSortedByName ==
    phase = "done" =>
        /\ manifest.written <=> third_party_packages # {}
        /\ Len(manifest.lines) = Cardinality(third_party_packages)
        /\ { manifest.lines[i] : i \in DOMAIN manifest.lines } = third_party_packages
        /\ \A i, j \in DOMAIN manifest.lines :
              i < j => LexLess(NameOf(manifest.lines[i]), NameOf(manifest.lines[j]))

(***************************************************************************)
(* C8.  A file that does not parse aborts the run: the walk never returns  *)
(* once the entry point or a file an import resolves to is invalid, and an *)
(* aborted run has observed nothing, copied nothing and written no         *)
(* manifest.  Only a syntax error aborts: an import that cannot be         *)
(* resolved does not.                                                      *)
(***************************************************************************)
C8_ParseErrorAborts ==
    /\ WalkOver =>
          /\ gateway_path \notin invalid
          /\ \A f \in parsed : \A n \in source[f] :
                find_module_path(n) \notin invalid
    /\ \A f \in invalid : visits[f] >= 1 => phase = "aborted"
    /\ phase = "aborted" =>
          /\ invalid # {}
          /\ output = {}
          /\ ~ manifest.written
          /\ new_modules = {}

\* the walk aborted on an invalid module after skipping an unresolvable import
C8_Witness ==
    /\ phase = "aborted"
    /\ invalid = { aPy }
    /\ source[gateway_path] = { "missing", "a" }
    /\ visits[gateway_path] = 1

(***************************************************************************)
(* C9.  Once discovery is over, for every module file the static walk      *)
(* visited or the runtime observer added, every configuration file in its  *)
(* directory or below that is a project file is collected.                 *)
(***************************************************************************)
C9_ConfigSweepComplete ==
    DiscoveryOver =>
        \A f \in Files :
            (visits[f] >= 1 \/ (f \in ObservedFiles /\ is_project_module(f))) =>
                \A c \in Files :
                    ConfigUnder(c, f.dir) /\ is_project_module(c) =>
                        c \in collected_files

\* module a was found: its sibling a.json and data/x.YML below it are collected
C9_Witness ==
    /\ phase = "done"
    /\ visits[aPy] = 1
    /\ P(<< "proj", "lib" >>, "a", ".json") \in collected_files
    /\ P(<< "proj", "lib", "data" >>, "x", ".YML") \in collected_files

(***************************************************************************)
(* C10.  A second static walk from the same entry point leaves the         *)
(* collected set as the first walk left it and recurses into no module     *)
(* again.                                                                  *)
(***************************************************************************)
C10_SecondWalkChangesNothing ==
    walks >= 1 =>
        /\ collected_files = first_walk
        /\ \A f \in Files \ { gateway_path } : visits[f] <= 1
        /\ \A f \in Files : adds[f] <= 1

\* the second walk returned, over a graph with two collected modules
C10_Witness ==
    /\ walks = 2
    /\ phase = "walked"
    /\ visits[gateway_path] = 2
    /\ aPy \in collected_files /\ pkgInit \in collected_files

====
